---- MODULE Spec2Model ----
(***************************************************************************)
(* typesecure: classification, deep redaction and policy decisions.        *)
(*                                                                         *)
(* JavaScript values are modelled as records [t, k, v, id]:               *)
(*   t = "cls"   a classified value made by a constructor (kind k, raw v)  *)
(*   t = "str"   a string primitive with text v                            *)
(*   t = "null"  null                                                      *)
(*   t = "in"    a reference to object id of the caller's object graph     *)
(*   t = "out"   a reference to object id allocated by redact              *)
(* Objects live in a heap: a function from identities to nodes             *)
(* [t, ents], t = "arr" (array), "rec" (plain record) or "inst" (instance  *)
(* of a foreign class); ents is the sequence of entries [key, val] in      *)
(* property order.  Keys are sequences of characters so that the           *)
(* suspicious-key pattern is computed, not assumed.                        *)
(***************************************************************************)
EXTENDS Integers, Sequences, FiniteSets, TLC

VARIABLES heap, data, options, policy, pc, res, calls

vars == <<heap, data, options, policy, pc, res, calls>>

-----------------------------------------------------------------------------
(* Values *)

Cls(kind, raw) == [t |-> "cls", k |-> kind, v |-> raw, id |-> 0]
Str(s) == [t |-> "str", k |-> "", v |-> s, id |-> 0]
Null == [t |-> "null", k |-> "", v |-> "", id |-> 0]
InRef(c) == [t |-> "in", k |-> "", v |-> "", id |-> c]
OutRef(n) == [t |-> "out", k |-> "", v |-> "", id |-> n]

Undefined == "undefined"

Node(type, ents) == [t |-> type, ents |-> ents]
Entry(key, val) == [key |-> key, val |-> val]

DataClassification == {"public", "pii", "secret", "token", "credential"}

PolicyAction == {"log", "network", "storage", "analytics"}

LogLevel == {"info", "warn", "error", "debug", "log"}

-----------------------------------------------------------------------------
(* classification.ts *)

\* Other values: undefined, numbers, booleans, and object literals built by
\* hand.  Obj(brand, kind, value) has the three properties with the values
\* given, each a value or Absent (no such property); brand is the property
\* keyed by Symbol.for("typesecure.classified").
Undef == [t |-> "undef", k |-> "", v |-> "", id |-> 0]
Num(n) == [t |-> "num", k |-> "", v |-> n, id |-> 0]
Bool(b) == [t |-> "bool", k |-> "", v |-> b, id |-> 0]
BigInt(n) == [t |-> "bigint", k |-> "", v |-> n, id |-> 0]
Absent == [t |-> "absent", k |-> "", v |-> "", id |-> 0]
Fn == [t |-> "fn", k |-> "", v |-> "f", id |-> 0]
Obj(brand, kind, value) ==
    [t |-> "obj", brand |-> brand, kind |-> kind, value |-> value]

\* typeof v
TypeOf(v) ==
    CASE v.t = "str" -> "string"
      [] v.t = "num" -> "number"
      [] v.t = "bool" -> "boolean"
      [] v.t = "bigint" -> "bigint"
      [] v.t \in {"undef", "absent"} -> "undefined"
      [] v.t = "fn" -> "function"
      [] OTHER -> "object"

\* v[name] for name the brand symbol, "kind" or "value": the value of the
\* property, or Absent.  A value made by makeClassified has all three; arrays
\* and records of the heap have string keys of their own only.
Prop(v, name) ==
    IF v.t = "cls"
    THEN IF name = "brand" THEN Bool("true")
         ELSE IF name = "kind" THEN Str(v.k)
         ELSE Str(v.v)
    ELSE IF v.t = "obj" THEN v[name]
    ELSE Absent

\* A variant of makeClassified that leaves the brand out.
makeClassifiedUnbranded(kind, value) == Obj(Absent, Str(kind), value)

\* { kind, value, [TYPESECURE_SYMBOL]: true } for a string value.
makeClassified(kind, value) == Cls(kind, value.v)

\* A variant of isClassified that looks at the shape only, not at the brand.
isClassifiedByShape(v) ==
    /\ TypeOf(v) = "object"
    /\ v.t # "null"
    /\ TypeOf(Prop(v, "kind")) = "string"
    /\ Prop(v, "value") # Absent

isClassified(v) ==
    /\ TypeOf(v) = "object"
    /\ v.t # "null"
    /\ Prop(v, "brand") = Bool("true")
    /\ TypeOf(Prop(v, "kind")) = "string"
    /\ Prop(v, "value") # Absent

\* value.kind, as a string of the model when it is one.
classificationOf(v) ==
    IF isClassified(v) THEN Prop(v, "kind").v ELSE Undefined

\* return value.value: reading a property of null or undefined is a
\* TypeError, a property that is not there reads as undefined.
reveal(v) ==
    IF v.t \in {"null", "undef"}
    THEN [t |-> "throw", type |-> "TypeError",
          message |-> "Cannot read properties of " \o v.t]
    ELSE [t |-> "return",
          value |-> IF Prop(v, "value") = Absent THEN Undef
                    ELSE Prop(v, "value")]

\* A variant of NonEmptyString without min(1).
NonEmptyStringOrEmpty(value) ==
    IF TypeOf(value) # "string"
    THEN [t |-> "throw", type |-> "ZodError", message |-> "invalid_type"]
    ELSE [t |-> "return", value |-> value]

\* NonEmptyString.parse: z.string().min(1).  parse throws a ZodError whose
\* issue names the violated constraint.
NonEmptyString(value) ==
    IF TypeOf(value) # "string"
    THEN [t |-> "throw", type |-> "ZodError", message |-> "invalid_type"]
    ELSE IF value.v = ""
    THEN [t |-> "throw", type |-> "ZodError", message |-> "too_small"]
    ELSE [t |-> "return", value |-> value]

\* publicText, piiText, secretText, token, credential: the constructor of the
\* kind, <Kind>StringSchema.parse(value).
Constructor(kind, value) ==
    LET parsed == NonEmptyString(value)
    IN  IF parsed.t = "throw" THEN parsed
        ELSE [t |-> "return", value |-> makeClassified(kind, parsed.value)]

-----------------------------------------------------------------------------
(* redaction.ts: the suspicious-key pattern *)

UpperCase ==
    <<"A", "B", "C", "D", "E", "F", "G", "H", "I", "J", "K", "L", "M",
      "N", "O", "P", "Q", "R", "S", "T", "U", "V", "W", "X", "Y", "Z">>

LowerCase ==
    <<"a", "b", "c", "d", "e", "f", "g", "h", "i", "j", "k", "l", "m",
      "n", "o", "p", "q", "r", "s", "t", "u", "v", "w", "x", "y", "z">>

ToLower(c) ==
    IF \E i \in DOMAIN UpperCase : UpperCase[i] = c
    THEN LowerCase[CHOOSE i \in DOMAIN UpperCase : UpperCase[i] = c]
    ELSE c

IgnoreCase(key) == [i \in DOMAIN key |-> ToLower(key[i])]

\* The alternatives of the pattern, the optional parts written out.
SuspiciousWords ==
    { <<"p", "a", "s", "s">>,
      <<"p", "a", "s", "s", "w", "o", "r", "d">>,
      <<"p", "w", "d">>,
      <<"s", "e", "c", "r", "e", "t">>,
      <<"t", "o", "k", "e", "n">>,
      <<"a", "p", "i", "k", "e", "y">>,
      <<"a", "p", "i", "_", "k", "e", "y">>,
      <<"a", "p", "i", "-", "k", "e", "y">>,
      <<"a", "u", "t", "h">>,
      <<"b", "e", "a", "r", "e", "r">>,
      <<"c", "o", "o", "k", "i", "e">>,
      <<"s", "e", "s", "s", "i", "o", "n">>,
      <<"p", "r", "i", "v", "a", "t", "e", "k", "e", "y">>,
      <<"p", "r", "i", "v", "a", "t", "e", "_", "k", "e", "y">>,
      <<"p", "r", "i", "v", "a", "t", "e", "-", "k", "e", "y">>,
      <<"s", "s", "h">>,
      <<"c", "r", "e", "d", "e", "n", "t", "i", "a", "l">> }

\* RegExp.test without anchors: some alternative occurs somewhere in the key.
DEFAULT_SUSPICIOUS_KEY(key) ==
    LET low == IgnoreCase(key)
    IN  \E w \in SuspiciousWords :
            \E i \in 1..(Len(low) - Len(w) + 1) :
                SubSeq(low, i, i + Len(w) - 1) = w

defaultPlaceholder(kind) == "[REDACTED:" \o kind \o "]"

-----------------------------------------------------------------------------
(* redaction.ts: redact *)

\* RedactOptions: given names the fields the caller supplied; the others are
\* undefined and take their defaults.
RedactOptions(given, guessByKey, placeholder, maxDepth) ==
    [given |-> given, guessByKey |-> guessByKey,
     placeholder |-> placeholder, maxDepth |-> maxDepth]

NoOptions == RedactOptions({}, TRUE, "default", 0)

DefaultMaxDepth == 25

optGuessByKey(o) == IF "guessByKey" \in o.given THEN o.guessByKey ELSE TRUE

optMaxDepth(o) == IF "maxDepth" \in o.given THEN o.maxDepth ELSE DefaultMaxDepth

\* The caller's placeholder function "stars" is (kind) => "***".
optPlaceholder(o, kind) ==
    IF "placeholder" \in o.given /\ o.placeholder = "stars"
    THEN "***"
    ELSE defaultPlaceholder(kind)

IsArray(h, v) == v.t = "in" /\ h[v.id].t = "arr"

isPlainObject(h, v) == v.t = "in" /\ h[v.id].t = "rec"

IsPrimitiveOrNull(v) == v.t \in {"null", "str", "num", "bool", "bigint"}

\* The WeakMap seen: a set of pairs [from, to].
SeenHas(seen, c) == \E p \in seen : p.from = c

SeenGet(seen, c) == (CHOOSE p \in seen : p.from = c).to

-----------------------------------------------------------------------------
(* Recursion.  A recursive function of the code is run on an explicit call   *)
(* stack: a configuration c holds the stack of the calls in progress and the *)
(* data the calls share, Step(c) runs the top call up to its next call or    *)
(* return, and the function has returned when the stack is empty.            *)

Top(c) == c.stack[Len(c.stack)]

Pop(c) == [c EXCEPT !.stack = SubSeq(@, 1, Len(@) - 1)]

Done(c) == c.stack = <<>>

\* A variant of walkBranch without the two returns for classified values.
walkBranchUnclassified(h, o, v, depth, keyHint, seen) ==
    IF depth > optMaxDepth(o) THEN "depth"
    ELSE IF /\ optGuessByKey(o)
            /\ keyHint # <<>>
            /\ DEFAULT_SUSPICIOUS_KEY(keyHint)
            /\ IsPrimitiveOrNull(v)
    THEN "key"
    ELSE IF IsArray(h, v) THEN "array"
    ELSE IF isPlainObject(h, v)
    THEN IF SeenHas(seen, v.id) THEN "seen" ELSE "record"
    ELSE "other"

\* A variant of walkBranch that returns a plain object as it is.
walkBranchShallow(h, o, v, depth, keyHint, seen) ==
    IF depth > optMaxDepth(o) THEN "depth"
    ELSE IF classificationOf(v) # Undefined THEN "kind"
    ELSE IF /\ optGuessByKey(o)
            /\ keyHint # <<>>
            /\ DEFAULT_SUSPICIOUS_KEY(keyHint)
            /\ IsPrimitiveOrNull(v)
    THEN "key"
    ELSE IF IsArray(h, v) THEN "array"
    ELSE IF isClassified(v) THEN "brand"
    ELSE "other"

\* A variant of walkBranch that takes every property name for suspicious.
walkBranchGuessAll(h, o, v, depth, keyHint, seen) ==
    IF depth > optMaxDepth(o) THEN "depth"
    ELSE IF classificationOf(v) # Undefined THEN "kind"
    ELSE IF /\ optGuessByKey(o)
            /\ keyHint # <<>>
            /\ IsPrimitiveOrNull(v)
    THEN "key"
    ELSE IF IsArray(h, v) THEN "array"
    ELSE IF isPlainObject(h, v)
    THEN IF SeenHas(seen, v.id) THEN "seen" ELSE "record"
    ELSE IF isClassified(v) THEN "brand"
    ELSE "other"

\* A variant of walkBranch that replaces a classified value at the root only.
walkBranchRootOnly(h, o, v, depth, keyHint, seen) ==
    IF depth > optMaxDepth(o) THEN "depth"
    ELSE IF classificationOf(v) # Undefined /\ depth = 0 THEN "kind"
    ELSE IF /\ optGuessByKey(o)
            /\ keyHint # <<>>
            /\ DEFAULT_SUSPICIOUS_KEY(keyHint)
            /\ IsPrimitiveOrNull(v)
    THEN "key"
    ELSE IF IsArray(h, v) THEN "array"
    ELSE IF isPlainObject(h, v)
    THEN IF SeenHas(seen, v.id) THEN "seen" ELSE "record"
    ELSE "other"

\* A variant of walkBranch without the depth limit.
walkBranchUnlimited(h, o, v, depth, keyHint, seen) ==
    IF classificationOf(v) # Undefined THEN "kind"
    ELSE IF /\ optGuessByKey(o)
            /\ keyHint # <<>>
            /\ DEFAULT_SUSPICIOUS_KEY(keyHint)
            /\ IsPrimitiveOrNull(v)
    THEN "key"
    ELSE IF IsArray(h, v) THEN "array"
    ELSE IF isPlainObject(h, v)
    THEN IF SeenHas(seen, v.id) THEN "seen" ELSE "record"
    ELSE IF isClassified(v) THEN "brand"
    ELSE "other"

\* Which return of redact's walk is taken, the conditions in the code's order.
walkBranch(h, o, v, depth, keyHint, seen) ==
    IF depth > optMaxDepth(o) THEN "depth"
    ELSE IF classificationOf(v) # Undefined THEN "kind"
    ELSE IF /\ optGuessByKey(o)
            /\ keyHint # <<>>
            /\ DEFAULT_SUSPICIOUS_KEY(keyHint)
            /\ IsPrimitiveOrNull(v)
    THEN "key"
    ELSE IF IsArray(h, v) THEN "array"
    ELSE IF isPlainObject(h, v)
    THEN IF SeenHas(seen, v.id) THEN "seen" ELSE "record"
    ELSE IF isClassified(v) THEN "brand"
    ELSE "other"

\* A variant of OwnState in which the two calls share one visited set.
OwnStateShared(c, other) == [c EXCEPT !.seen = @ \cup other.seen]

\* What a call in progress works on: seen, kinds and the output are created
\* in the call, so another call in progress has no part in them.
OwnState(c, other) == c

\* A call of walk returns val to the loop of the call below it, which stores
\* it (as the next element of the mapped array, or as out[k]) and moves on;
\* the first call returns to redact.  A frame [ents, i, depth, n] is a loop
\* over the entries ents at index i, its values walked at depth, filling the
\* new object n.
walkReturn(c, val) ==
    LET f == Top(c)
        k == Len(c.stack)
    IN  IF f.n = 0
        THEN [c EXCEPT !.val = val, !.stack[k].i = @ + 1]
        ELSE [c EXCEPT !.oh[f.n].ents = Append(@, Entry(f.ents[f.i].key, val)),
                       !.stack[k].i = @ + 1]

\* One call walk(v, depth, keyHint) of redact, up to its return or to its
\* loop over v's elements or entries; and the end of such a loop.
walk(c) ==
    LET f == Top(c)
    IN  IF f.i > Len(f.ents)
        THEN IF Len(c.stack) = 1 THEN Pop(c)
             ELSE walkReturn(Pop(c), OutRef(f.n))
        ELSE
        LET v == f.ents[f.i].val
            keyHint == f.ents[f.i].key
            b == walkBranch(c.h, c.o, v, f.depth, keyHint, c.seen)
            n == Len(c.oh) + 1
        IN  CASE b = "depth" ->
                    walkReturn(c, Str(optPlaceholder(c.o, "unknown")))
              [] b = "kind" ->
                    walkReturn(c, Str(optPlaceholder(c.o, classificationOf(v))))
              [] b = "key" ->
                    walkReturn(c, Str(optPlaceholder(c.o, "unknown")))
              [] b = "array" ->
                    [c EXCEPT !.oh = Append(@, Node("arr", <<>>)),
                              !.stack = Append(@, [ents |-> c.h[v.id].ents,
                                                   i |-> 1,
                                                   depth |-> f.depth + 1,
                                                   n |-> n])]
              [] b = "seen" ->
                    walkReturn(c, OutRef(SeenGet(c.seen, v.id)))
              [] b = "record" ->
                    [c EXCEPT !.oh = Append(@, Node("rec", <<>>)),
                              !.seen = @ \cup {[from |-> v.id, to |-> n]},
                              !.stack = Append(@, [ents |-> c.h[v.id].ents,
                                                   i |-> 1,
                                                   depth |-> f.depth + 1,
                                                   n |-> n])]
              [] b = "brand" ->
                    walkReturn(c, Str(optPlaceholder(c.o, v.k)))
              [] b = "other" ->
                    walkReturn(c, v)

-----------------------------------------------------------------------------
(* policy.ts: detectedKindsDeep *)

Return(value) == [t |-> "return", value |-> value]

Throw(type, message) == [t |-> "throw", type |-> type, message |-> message]

DetectMaxDepth == 25

IsObject(v) == v.t \in {"in", "cls"}

\* A variant of AddKind that collects the inner strings of the values.
AddKindRaw(kinds, v) ==
    IF classificationOf(v) # Undefined
       /\ Prop(v, "value").v \notin {kinds[i] : i \in DOMAIN kinds}
    THEN Append(kinds, Prop(v, "value").v)
    ELSE kinds

\* kinds.add(kind) when classificationOf found one: a Set keeps the order of
\* first insertion.
AddKind(kinds, v) ==
    IF classificationOf(v) # Undefined
       /\ classificationOf(v) \notin {kinds[i] : i \in DOMAIN kinds}
    THEN Append(kinds, classificationOf(v))
    ELSE kinds

\* Which way detectedKindsDeep's walk goes on, the conditions in the code's
\* order: a classified value is an object, put in seen and not entered.
detectBranch(h, v, depth, maxDepth, seen) ==
    IF depth > maxDepth THEN "depth"
    ELSE IF IsArray(h, v) THEN "array"
    ELSE IF IsObject(v)
    THEN IF v.t = "in" /\ v.id \in seen THEN "seen"
         ELSE IF isClassified(v) THEN "classified"
         ELSE "object"
    ELSE "other"

\* One call walk(v, depth) of detectedKindsDeep, up to its return or to its
\* loop over v's items or values; and the end of such a loop.  A frame
\* [ents, i, depth] is a loop at index i whose values are walked at depth.
detectWalk(c) ==
    LET f == Top(c)
        k == Len(c.stack)
    IN  IF f.i > Len(f.ents)
        THEN Pop(c)
        ELSE
        LET v == f.ents[f.i].val
            b == detectBranch(c.h, v, f.depth, c.maxDepth, c.seen)
            next == [c EXCEPT !.stack[k].i = @ + 1]
            loop == [ents |-> c.h[v.id].ents, i |-> 1, depth |-> f.depth + 1]
        IN  CASE b = "depth" -> next
              [] b = "array" ->
                    [next EXCEPT !.kinds = AddKind(@, v),
                                 !.stack = Append(@, loop)]
              [] b = "object" ->
                    [next EXCEPT !.kinds = AddKind(@, v),
                                 !.seen = @ \cup {v.id},
                                 !.stack = Append(@, loop)]
              [] b \in {"seen", "classified", "other"} ->
                    [next EXCEPT !.kinds = AddKind(@, v)]

-----------------------------------------------------------------------------
(* JSON.stringify *)

\* The text is modelled as its sequence of tokens: brackets, property names
\* and the string and null literals (white space and commas carry nothing).
Tok(t, s, key) == [t |-> t, s |-> s, key |-> key]

KindKey == <<"k", "i", "n", "d">>

ValueKey == <<"v", "a", "l", "u", "e">>

NodeOf(h, oh, v) == IF v.t = "out" THEN oh[v.id] ELSE h[v.id]

\* The tokens of a value that holds no object.  A classified value is an
\* object with a symbol-keyed brand, which is skipped.
LeafToks(v) ==
    IF v.t = "str" THEN <<Tok("string", v.v, <<>>)>>
    ELSE IF v.t \in {"num", "bool"} THEN <<Tok(v.t, v.v, <<>>)>>
    ELSE IF v.t = "cls"
    THEN <<Tok("{", "", <<>>),
           Tok("key", "", KindKey), Tok("string", v.k, <<>>),
           Tok("key", "", ValueKey), Tok("string", v.v, <<>>),
           Tok("}", "", <<>>)>>
    ELSE <<Tok("null", "", <<>>)>>

\* One step of the serialization.  A frame [ents, i, ref] is the object ref
\* being written at entry i; an object met again while it is being written
\* is the circular-structure TypeError, and a BigInt is a TypeError too.
stringify(c) ==
    LET f == Top(c)
        k == Len(c.stack)
    IN  IF f.i > Len(f.ents)
        THEN IF k = 1 THEN Pop(c)
             ELSE [Pop(c) EXCEPT !.toks =
                      Append(@, Tok(IF NodeOf(c.h, c.oh, f.ref).t = "arr"
                                    THEN "]" ELSE "}", "", <<>>))]
        ELSE
        LET v == f.ents[f.i].val
            named == k > 1 /\ NodeOf(c.h, c.oh, f.ref).t # "arr"
            pre == IF named THEN <<Tok("key", "", f.ents[f.i].key)>> ELSE <<>>
            next == [c EXCEPT !.stack[k].i = @ + 1]
        IN  IF v.t = "bigint"
            THEN [c EXCEPT !.err = "Do not know how to serialize a BigInt",
                           !.stack = <<>>]
            ELSE IF v.t \notin {"in", "out"}
            THEN [next EXCEPT !.toks = @ \o pre \o LeafToks(v)]
            ELSE IF \E j \in 2..k : c.stack[j].ref = v
            THEN [c EXCEPT !.err = "Converting circular structure to JSON",
                           !.stack = <<>>]
            ELSE [next EXCEPT
                     !.toks = @ \o pre \o
                              <<Tok(IF NodeOf(c.h, c.oh, v).t = "arr"
                                    THEN "[" ELSE "{", "", <<>>)>>,
                     !.stack = Append(@, [ents |-> NodeOf(c.h, c.oh, v).ents,
                                          i |-> 1, ref |-> v])]

-----------------------------------------------------------------------------
(* Running a recursive function to its return *)

\* The call of walk about to be made, with its depth argument: deep is the
\* largest depth argument of the calls made so far.
Entered(c) ==
    LET f == Top(c)
    IN  IF f.i <= Len(f.ents) /\ f.depth > c.deep
        THEN [c EXCEPT !.deep = f.depth]
        ELSE c

Step(c) ==
    CASE c.m = "redact" -> walk(Entered(c))
      [] c.m = "detect" -> detectWalk(Entered(c))
      [] c.m = "json" -> stringify(c)

\* The steps a run may take are at most 2^MaxRunLog.
MaxRunLog == 10

RECURSIVE Run(_, _)
\* Up to 2^k steps from c, stopping when the function has returned.
Run(k, c) ==
    IF Done(c) THEN c
    ELSE IF k = 0 THEN Step(c)
    ELSE LET c1 == Run(k - 1, c)
         IN  IF Done(c1) THEN c1 ELSE Run(k - 1, c1)

\* The call on value: a loop over the one value, at depth 0.
FirstCall(value) == <<Entry(<<>>, value)>>

\* The call walk(value, 0) about to run, in redact (its options o) or in
\* detectedKindsDeep (maxDepth 25): nothing seen, nothing collected.
Start(m, h, value, o) ==
    IF m = "redact"
    THEN [m |-> "redact", h |-> h, o |-> o, oh |-> <<>>, seen |-> {},
          val |-> Null, deep |-> 0,
          stack |-> <<[ents |-> FirstCall(value), i |-> 1,
                       depth |-> 0, n |-> 0]>>]
    ELSE [m |-> "detect", h |-> h, maxDepth |-> DetectMaxDepth,
          kinds |-> <<>>, seen |-> {}, deep |-> 0,
          stack |-> <<[ents |-> FirstCall(value), i |-> 1, depth |-> 0]>>]

\* The run of walk(value, 0) in redact.
redactRun(h, value, o) == Run(MaxRunLog, Start("redact", h, value, o))

\* redact(value, options): [val, oh], the result and the objects it allocated.
redact(h, value, o) ==
    LET c == redactRun(h, value, o)
    IN  [val |-> c.val, oh |-> c.oh, returned |-> Done(c)]

\* The run of walk(value, 0) in detectedKindsDeep.
detectRun(h, value, maxDepth) ==
    Run(MaxRunLog,
        [Start("detect", h, value, NoOptions) EXCEPT !.maxDepth = maxDepth])

detectedKindsDeep(h, value, maxDepth) == detectRun(h, value, maxDepth).kinds

JSONstringify(h, oh, v) ==
    LET c == Run(MaxRunLog,
                 [m |-> "json", h |-> h, oh |-> oh, toks |-> <<>>, err |-> "",
                  stack |-> <<[ents |-> FirstCall(v), i |-> 1, ref |-> Null]>>])
    IN  IF c.err = "" THEN Return(c.toks)
        ELSE Throw("TypeError", c.err)

\* JSON.stringify(redact(value, options), null, space)
safeJsonStringify(h, value, o) ==
    LET r == redact(h, value, o)
    IN  JSONstringify(h, r.oh, r.val)

\* A variant of safeLoggerAdapter that hands the arguments over as they are.
safeLoggerAdapterRaw(method, h, args) ==
    [r |-> [t |-> "return", value |-> Undefined],
     calls |-> <<[method |-> method,
                  args |-> [i \in DOMAIN args |->
                               [val |-> args[i], oh |-> <<>>,
                                returned |-> TRUE]]]>>]

\* safeLoggerAdapter(logger)[method](...args): each of the five methods
\* calls the logger's method written in its body with args.map((a) =>
\* redact(a)).  The result is [r, calls] as for policyLog.
safeLoggerAdapter(method, h, args) ==
    LET target == [info |-> "info", warn |-> "warn", error |-> "error",
                   debug |-> "debug", log |-> "log"]
    IN  [r |-> [t |-> "return", value |-> Undefined],
         calls |-> <<[method |-> target[method],
                      args |-> [i \in DOMAIN args |->
                                   redact(h, args[i], NoOptions)]]>>]

-----------------------------------------------------------------------------
(* policy.ts: policies and decisions *)

Policy(name, allow, has, redactBefore, redaction) ==
    [name |-> name, allow |-> allow, has |-> has,
     redactBefore |-> redactBefore, redaction |-> redaction]

\* A variant of defaultPolicy whose network action allows public only.
defaultPolicyPublicNetwork ==
    Policy("typesecure.default",
           [log |-> {"public"},
            analytics |-> {"public"},
            network |-> {"public"},
            storage |-> {"public", "pii", "secret", "token", "credential"}],
           {"redactBefore", "redaction"},
           {"log", "analytics"},
           RedactOptions({"guessByKey"}, TRUE, "default", 0))

defaultPolicy ==
    Policy("typesecure.default",
           [log |-> {"public"},
            analytics |-> {"public"},
            network |-> {"public", "token"},
            storage |-> {"public", "pii", "secret", "token", "credential"}],
           {"redactBefore", "redaction"},
           {"log", "analytics"},
           RedactOptions({"guessByKey"}, TRUE, "default", 0))

RECURSIVE Join(_, _)
\* Array.prototype.join
Join(seq, sep) ==
    IF seq = <<>> THEN ""
    ELSE IF Len(seq) = 1 THEN seq[1]
    ELSE seq[1] \o sep \o Join(Tail(seq), sep)

Filter(seq, Keep(_)) ==
    LET F[i \in 0..Len(seq)] ==
            IF i = 0 THEN <<>>
            ELSE IF Keep(seq[i]) THEN Append(F[i - 1], seq[i]) ELSE F[i - 1]
    IN  F[Len(seq)]

\* policy.allow[action] is undefined when the action has no entry; calling
\* its has method then raises a TypeError.  filter calls the callback once
\* per detected kind, so nothing is raised when nothing was detected.
decideWith(p, action, detected) ==
    LET NotAllowed(k) == k \notin p.allow[action]
    IN  IF action \notin DOMAIN p.allow /\ detected # <<>>
        THEN Throw("TypeError",
                   "Cannot read properties of undefined (reading 'has')")
        ELSE LET disallowed == IF detected = <<>> THEN <<>>
                               ELSE Filter(detected, NotAllowed)
             IN  IF Len(disallowed) > 0
                 THEN Return([allowed |-> FALSE,
                              reason |-> "Policy '" \o p.name
                                         \o "' disallows kinds ["
                                         \o Join(disallowed, ", ")
                                         \o "] for action '" \o action \o "'.",
                              detectedKinds |-> detected])
                 ELSE Return([allowed |-> TRUE, detectedKinds |-> detected])

decide(p, action, h, d) ==
    decideWith(p, action, detectedKindsDeep(h, d, DetectMaxDepth))

assertAllowed(p, action, h, d) ==
    LET dec == decide(p, action, h, d)
    IN  IF dec.t = "throw" THEN dec
        ELSE IF ~dec.value.allowed
        THEN Throw("Error",
                   IF "reason" \in DOMAIN dec.value THEN dec.value.reason
                   ELSE "Policy denied action.")
        ELSE Return(Undefined)

\* at is Date.now(): any clock reading.
audit(p, action, h, d, now) ==
    LET dec == decide(p, action, h, d)
    IN  IF dec.t = "throw" THEN dec
        ELSE Return([at |-> now, policy |-> p.name, action |-> action,
                     decision |-> dec.value])

\* The heap with the array of a rest parameter ...args as its last object.
WithArgs(h, args) ==
    Append(h, Node("arr", [i \in DOMAIN args |-> Entry(<<>>, args[i])]))

\* A variant of policyLog that hands the arguments to the logger as they are.
policyLogUnredacted(p, level, h, args) ==
    LET h1 == WithArgs(h, args)
        chk == assertAllowed(p, "log", h1, InRef(Len(h1)))
    IN  IF chk.t = "throw"
        THEN [r |-> chk, calls |-> <<>>]
        ELSE [r |-> Return(Undefined),
              calls |-> <<[method |-> level,
                           args |-> [i \in DOMAIN args |->
                                        [val |-> args[i], oh |-> <<>>,
                                         returned |-> TRUE]]]>>]

\* policyLog(policy, logger, level, ...args): args is a fresh array holding
\* the arguments.  The result is [r, calls]: how the call ended and the calls
\* it made to the logger, each [method, args] with every argument [val, oh].
policyLog(p, level, h, args) ==
    LET h1 == WithArgs(h, args)
        chk == assertAllowed(p, "log", h1, InRef(Len(h1)))
        shouldRedact == IF "redactBefore" \in p.has
                        THEN "log" \in p.redactBefore
                        ELSE FALSE
        redaction == IF "redaction" \in p.has THEN p.redaction ELSE NoOptions
        out == IF shouldRedact
               THEN [i \in DOMAIN args |-> redact(h, args[i], redaction)]
               ELSE [i \in DOMAIN args |->
                        [val |-> args[i], oh |-> <<>>, returned |-> TRUE]]
    IN  IF chk.t = "throw"
        THEN [r |-> chk, calls |-> <<>>]
        ELSE [r |-> Return(Undefined),
              calls |-> <<[method |-> level, args |-> out]>>]

-----------------------------------------------------------------------------
(* testing.ts *)

AllKinds == {"public", "pii", "secret", "token", "credential"}

\* createMockPolicy(overrides): { ...defaultPolicy, ...overrides }.  overrides
\* is a policy whose has also names "name" and "allow" when it gives them.
createMockPolicy(overrides) ==
    Policy(IF "name" \in overrides.has THEN overrides.name ELSE "test-policy",
           IF "allow" \in overrides.has THEN overrides.allow
           ELSE [log |-> AllKinds, network |-> AllKinds,
                 storage |-> AllKinds, analytics |-> AllKinds],
           overrides.has \cap {"redactBefore", "redaction"},
           overrides.redactBefore,
           overrides.redaction)

-----------------------------------------------------------------------------
(* The callers' inputs *)

\* The most entries (array elements and record properties) of an object graph.
MaxEntries == 3

\* The largest maxDepth a caller passes to redact.
MaxDepthOption == 2

\* The clock readings Date.now() may return.
MaxClock == 1

KeyNormal == <<"n", "o", "r", "m", "a", "l">>

KeyPassword == <<"p", "a", "s", "s", "w", "o", "r", "d">>

KeyApiKey == <<"a", "p", "i", "K", "e", "y">>

Objects == {1, 2}

\* The entries of an array of n elements drawn from vals.
ArrayEnts(vals, n) ==
    {[i \in 1..n |-> Entry(<<>>, f[i])] : f \in [1..n -> vals]}

\* The entries of a record of n properties, its keys distinct.
RecordEnts(vals, keys, n) ==
    {[i \in 1..n |-> Entry(ks[i], f[i])] :
        ks \in {q \in [1..n -> keys] : \A i, j \in 1..n : q[i] = q[j] => i = j},
        f \in [1..n -> vals]}

Nodes(vals, keys, n) ==
    {Node("arr", e) : e \in ArrayEnts(vals, n)}
        \cup {Node("rec", e) : e \in RecordEnts(vals, keys, n)}

RefsTo(node, type, h) ==
    {i \in DOMAIN node.ents :
        node.ents[i].val.t = "in" /\ h[node.ents[i].val.id].t = type}

\* Object graphs of two objects: records and arrays that may share each
\* other and may refer to themselves.  Object 2 is part of the graph (object 1
\* refers to it) or is left empty.  An array holds at most one reference to an
\* array: an array reached twice from each array of a cycle takes 2^25 visits.
Graphs(leaves, keys) ==
    LET vals == leaves \cup {InRef(c) : c \in Objects}
        sizes == {sz \in (0..MaxEntries) \X (0..MaxEntries) :
                     sz[1] + sz[2] <= MaxEntries}
        all == UNION {{<<a, b>> : a \in Nodes(vals, keys, sz[1]),
                                  b \in Nodes(vals, keys, sz[2])} : sz \in sizes}
    IN  {h \in all :
            /\ \/ \E i \in DOMAIN h[1].ents : h[1].ents[i].val = InRef(2)
               \/ h[2] = Node("arr", <<>>)
            /\ \A c \in Objects :
                   h[c].t = "arr" => Cardinality(RefsTo(h[c], "arr", h)) <= 1}

EmptyGraph == <<Node("arr", <<>>), Node("arr", <<>>)>>

RedactLeaves == {Cls("secret", "s3cr3t"), Str("ok")}

PolicyLeaves == {Cls("secret", "s3cr3t"), Cls("public", "hello")}

\* The values that are not objects.
Primitives ==
    {Str("ok"), Num("42"), Bool("true"), BigInt("7"), Null}

\* A record of one property, and an array holding such a record.
OneProperty(key, v) ==
    {<<Node("rec", <<Entry(key, v)>>), Node("arr", <<>>)>>,
     <<Node("arr", <<Entry(<<>>, InRef(2))>>), Node("rec", <<Entry(key, v)>>)>>}

\* redact's inputs: an object graph, a record of one property of each
\* primitive type under each key, or a bare value.
RedactInputs ==
    {[heap |-> h, data |-> InRef(1)] :
        h \in Graphs(RedactLeaves, {KeyNormal, KeyPassword})
                 \cup UNION {OneProperty(key, v) :
                                key \in {KeyNormal, KeyPassword, KeyApiKey},
                                v \in Primitives}}
        \cup {[heap |-> EmptyGraph, data |-> v] : v \in RedactLeaves \cup {Null}}

\* The options a caller passes: each field given or left out.
OptionSets ==
    {RedactOptions(g \cup p, FALSE, "stars", 0) :
        g \in SUBSET {"guessByKey"}, p \in SUBSET {"placeholder"}}
        \cup {RedactOptions(g \cup p \cup {"maxDepth"}, FALSE, "stars", d) :
                  g \in SUBSET {"guessByKey"}, p \in SUBSET {"placeholder"},
                  d \in 0..MaxDepthOption}

\* The policy functions' inputs: an object graph, or a bare value of any kind.
PolicyInputs ==
    {[heap |-> h, data |-> InRef(1)] : h \in Graphs(PolicyLeaves, {KeyNormal})}
        \cup {[heap |-> EmptyGraph, data |-> Cls(k, "raw")] : k \in DataClassification}
        \cup {[heap |-> <<Node("rec", <<Entry(KeyNormal, Cls(k, "raw"))>>),
                          Node("arr", <<>>)>>,
                data |-> InRef(1)] : k \in DataClassification}
        \cup {[heap |-> EmptyGraph, data |-> Str("ok")]}

\* The overrides given to createMockPolicy: nothing, an allow table with an
\* entry for log only or for every action, and redactBefore given or not.
AllowSets == {{}, {"public"}}

MockOverrides ==
    LET allows == {[log |-> ks] : ks \in AllowSets}
                      \cup {[a \in PolicyAction |-> ks] : ks \in AllowSets}
    IN  {Policy("", <<>>, has, {"log"}, NoOptions) :
            has \in SUBSET {"redactBefore"}}
        \cup {Policy("", al, has \cup {"allow"}, {"log"}, NoOptions) :
                 al \in allows, has \in SUBSET {"redactBefore"}}

Policies == {defaultPolicy} \cup {createMockPolicy(ov) : ov \in MockOverrides}

\* The argument lists given to policyLog around the data.
ArgLists(d) == {<<d>>, <<Cls("public", "hello"), d>>, <<d, Str("msg")>>}

-----------------------------------------------------------------------------
(* The calls.  Every exported function is synchronous and keeps nothing      *)
(* between calls: a behaviour is one call on the inputs chosen at the start. *)

NoResult == [op |-> "none"]

InitRedact ==
    /\ \E in \in RedactInputs : heap = in.heap /\ data = in.data
    /\ options \in OptionSets
    /\ policy = defaultPolicy
    /\ pc = "ready"
    /\ res = NoResult
    /\ calls = <<>>

InitPolicy ==
    /\ \E in \in PolicyInputs : heap = in.heap /\ data = in.data
    /\ options = NoOptions
    /\ policy \in Policies
    /\ pc = "ready"
    /\ res = NoResult
    /\ calls = <<>>

Redact ==
    /\ pc = "ready"
    /\ res' = [op |-> "redact", r |-> redact(heap, data, options)]
    /\ pc' = "done"
    /\ UNCHANGED <<heap, data, options, policy, calls>>

SafeJsonStringify ==
    /\ pc = "ready"
    /\ res' = [op |-> "safeJsonStringify",
               r |-> safeJsonStringify(heap, data, options)]
    /\ pc' = "done"
    /\ UNCHANGED <<heap, data, options, policy, calls>>

Decide ==
    /\ pc = "ready"
    /\ \E a \in PolicyAction :
           res' = [op |-> "decide", action |-> a,
                   r |-> decide(policy, a, heap, data)]
    /\ pc' = "done"
    /\ UNCHANGED <<heap, data, options, policy, calls>>

AssertAllowed ==
    /\ pc = "ready"
    /\ \E a \in PolicyAction :
           res' = [op |-> "assertAllowed", action |-> a,
                   r |-> assertAllowed(policy, a, heap, data)]
    /\ pc' = "done"
    /\ UNCHANGED <<heap, data, options, policy, calls>>

Audit ==
    /\ pc = "ready"
    /\ \E a \in PolicyAction, now \in 0..MaxClock :
           res' = [op |-> "audit", action |-> a,
                   r |-> audit(policy, a, heap, data, now)]
    /\ pc' = "done"
    /\ UNCHANGED <<heap, data, options, policy, calls>>

PolicyLog ==
    /\ pc = "ready"
    /\ \E level \in LogLevel, args \in ArgLists(data) :
           LET out == policyLog(policy, level, heap, args)
           IN  /\ res' = [op |-> "policyLog", level |-> level, args |-> args,
                          r |-> out.r]
               /\ calls' = calls \o out.calls
    /\ pc' = "done"
    /\ UNCHANGED <<heap, data, options, policy>>

\* The values given to the classification functions: strings (the empty one
\* too), other primitives, null and undefined, an array, an instance of a
\* foreign class, and object literals with or without a brand, a kind and a
\* value property.
ClassifyHeap == <<Node("arr", <<Entry(<<>>, Str("a"))>>), Node("inst", <<>>)>>

ClassifyObjects ==
    {Obj(b, k, v) :
        b \in {Absent, Bool("true"), Str("true")},
        k \in {Absent, Str("secret"), Str("public"), Str("bogus"), Num("1")},
        v \in {Absent, Str("x"), Undef}}

ClassifyInputs ==
    {Str(""), Str("a"), Str("shh"), Null, Undef, Num("0"), Num("42"),
     Bool("true"), Bool("false"), InRef(1), InRef(2)}
        \cup ClassifyObjects

InitClassify ==
    /\ heap = ClassifyHeap
    /\ data \in ClassifyInputs
    /\ options = NoOptions
    /\ policy = defaultPolicy
    /\ pc = "ready"
    /\ res = NoResult
    /\ calls = <<>>

\* A constructor called on the input; the value it returns is the data of
\* the calls that follow.
Construct ==
    /\ pc = "ready"
    /\ \E kind \in DataClassification :
           LET r == Constructor(kind, data)
           IN  /\ res' = [op |-> "construct", kind |-> kind, input |-> data,
                          r |-> r]
               /\ data' = IF r.t = "return" THEN r.value ELSE data
               /\ pc' = IF r.t = "return" THEN "made" ELSE "done"
    /\ UNCHANGED <<heap, options, policy, calls>>

IsClassified ==
    /\ pc \in {"ready", "made"}
    /\ res' = [op |-> "isClassified", of |-> res, r |-> isClassified(data)]
    /\ pc' = "done"
    /\ UNCHANGED <<heap, data, options, policy, calls>>

ClassificationOf ==
    /\ pc \in {"ready", "made"}
    /\ res' = [op |-> "classificationOf", of |-> res,
               r |-> classificationOf(data)]
    /\ pc' = "done"
    /\ UNCHANGED <<heap, data, options, policy, calls>>

Reveal ==
    /\ pc \in {"ready", "made"}
    /\ res' = [op |-> "reveal", of |-> res, r |-> reveal(data)]
    /\ pc' = "done"
    /\ UNCHANGED <<heap, data, options, policy, calls>>

NextClassify == Construct \/ IsClassified \/ ClassificationOf \/ Reveal

NextRedact == Redact \/ SafeJsonStringify

NextPolicy == Decide \/ AssertAllowed \/ Audit \/ PolicyLog

SpecRedact == InitRedact /\ [][NextRedact]_vars

SpecPolicy == InitPolicy /\ [][NextPolicy]_vars

SpecClassify == InitClassify /\ [][NextClassify]_vars

\* Every function that is given data, under the default policy and the mock
\* policy without overrides.
InitCalls ==
    /\ \E in \in PolicyInputs : heap = in.heap /\ data = in.data
    /\ options = NoOptions
    /\ policy \in {defaultPolicy,
                   createMockPolicy(Policy("", <<>>, {}, {}, NoOptions))}
    /\ pc = "ready"
    /\ res = NoResult
    /\ calls = <<>>

NextCalls == Redact \/ Decide \/ AssertAllowed \/ Audit \/ PolicyLog

SpecCalls == InitCalls /\ [][NextCalls]_vars

\* The result of a call of redact given to the next call: the objects the
\* first call allocated are the caller's objects of the second.
AsInputValue(v) == IF v.t = "out" THEN InRef(v.id) ELSE v

AsInput(oh) ==
    [n \in DOMAIN oh |->
        Node(oh[n].t, [i \in DOMAIN oh[n].ents |->
                          Entry(oh[n].ents[i].key,
                                AsInputValue(oh[n].ents[i].val))])]

\* redact(redact(x, options), options): the second call.
RedactAgain ==
    /\ pc = "done"
    /\ res.op = "redact"
    /\ res' = [op |-> "redactAgain", first |-> res.r,
               r |-> redact(AsInput(res.r.oh), AsInputValue(res.r.val),
                            options)]
    /\ pc' = "again"
    /\ UNCHANGED <<heap, data, options, policy, calls>>

NextTwice == Redact \/ RedactAgain

SpecTwice == InitRedact /\ [][NextTwice]_vars

\* Two calls in progress at once on data of the same object graph, both of
\* redact or both of decide, their steps interleaved in every way: first
\* and second are the two runs.  Run one after the other is one of the ways.
\* The graphs are those in which no array holds an array, so that every
\* cycle passes through a record and the visited sets decide where it ends.
PairGraphs ==
    {h \in Graphs(RedactLeaves, {KeyNormal}) :
        \A c \in DOMAIN h : \A i \in DOMAIN h[c].ents :
            LET v == h[c].ents[i].val
            IN  h[c].t = "arr" /\ v.t = "in" => h[v.id].t # "arr"}

InitPair ==
    /\ heap \in PairGraphs
    /\ data = InRef(1)
    /\ options \in {NoOptions, RedactOptions({"maxDepth"}, FALSE, "stars", 1)}
    /\ policy = defaultPolicy
    /\ pc = "ready"
    /\ res = NoResult
    /\ calls = <<>>

StartRedacts ==
    /\ pc = "ready"
    /\ \E d \in {InRef(1), InRef(2)} :
           res' = [op |-> "redacts", data |-> d,
                   first |-> Start("redact", heap, data, options),
                   second |-> Start("redact", heap, d, options)]
    /\ pc' = "running"
    /\ UNCHANGED <<heap, data, options, policy, calls>>

StartDecides ==
    /\ pc = "ready"
    /\ \E d \in {InRef(1), InRef(2)} :
           res' = [op |-> "decides", data |-> d,
                   first |-> Start("detect", heap, data, options),
                   second |-> Start("detect", heap, d, options)]
    /\ pc' = "running"
    /\ UNCHANGED <<heap, data, options, policy, calls>>

StepFirst ==
    /\ pc = "running"
    /\ ~Done(res.first)
    /\ LET c == Step(OwnState(res.first, res.second))
       IN  /\ res' = [res EXCEPT !.first = c]
           /\ pc' = IF Done(c) /\ Done(res.second) THEN "done" ELSE "running"
    /\ UNCHANGED <<heap, data, options, policy, calls>>

StepSecond ==
    /\ pc = "running"
    /\ ~Done(res.second)
    /\ LET c == Step(OwnState(res.second, res.first))
       IN  /\ res' = [res EXCEPT !.second = c]
           /\ pc' = IF Done(c) /\ Done(res.first) THEN "done" ELSE "running"
    /\ UNCHANGED <<heap, data, options, policy, calls>>

NextPair == StartRedacts \/ StartDecides \/ StepFirst \/ StepSecond

SpecPair == InitPair /\ [][NextPair]_vars

\* Inputs with the other nodes: undefined, a function, and instances of a
\* foreign class (objects whose prototype is neither Object.prototype nor
\* null), which hold their own properties as a record does.
AsInstance(h, S) ==
    [c \in DOMAIN h |->
        IF c \in S /\ h[c].t = "rec" THEN Node("inst", h[c].ents) ELSE h[c]]

NodeLeaves == {Cls("secret", "s3cr3t"), Cls("public", "hello"), Str("ok")}

NodeInputs ==
    {[heap |-> AsInstance(h, S), data |-> InRef(1)] :
        h \in Graphs(NodeLeaves, {KeyNormal}), S \in SUBSET Objects}
        \cup {[heap |-> h, data |-> InRef(1)] :
                 h \in UNION {OneProperty(key, v) :
                                 key \in {KeyNormal, KeyPassword},
                                 v \in {Undef, Fn, Num("42")}}}
        \cup {[heap |-> EmptyGraph, data |-> v] : v \in {Undef, Fn, Str("ok")}}

InitNodes ==
    /\ \E in \in NodeInputs : heap = in.heap /\ data = in.data
    /\ options \in {NoOptions,
                    RedactOptions({"guessByKey"}, FALSE, "stars", 0),
                    RedactOptions({"maxDepth"}, FALSE, "stars", 1)}
    /\ policy = defaultPolicy
    /\ pc = "ready"
    /\ res = NoResult
    /\ calls = <<>>

\* decide on the data that redact was called on.
DecideAfter ==
    /\ pc = "done"
    /\ res.op = "redact"
    /\ \E a \in PolicyAction :
           res' = [op |-> "redactDecide", redacted |-> res.r, action |-> a,
                   r |-> decide(policy, a, heap, data)]
    /\ pc' = "both"
    /\ UNCHANGED <<heap, data, options, policy, calls>>

NextNodes == Redact \/ DecideAfter

SpecNodes == InitNodes /\ [][NextNodes]_vars

\* Object graphs of three objects: an array of three references (to itself
\* at most once), a record of one classified value and an array of two.
ThreeObjectGraphs ==
    {<<Node("arr", e), Node("rec", <<Entry(KeyNormal, l)>>), Node("arr", b)>> :
        e \in {f \in ArrayEnts({InRef(1), InRef(2), InRef(3)}, 3) :
                  Cardinality({i \in 1..3 : f[i].val = InRef(1)}) <= 1},
        l \in PolicyLeaves,
        b \in ArrayEnts(PolicyLeaves, 2)}

\* decide under the default policy and under a policy that allows nothing.
InitKinds ==
    /\ \E in \in PolicyInputs
                   \cup {[heap |-> h, data |-> InRef(1)] :
                            h \in ThreeObjectGraphs} :
           heap = in.heap /\ data = in.data
    /\ options = NoOptions
    /\ policy \in {defaultPolicy,
                   createMockPolicy(Policy("", [a \in PolicyAction |-> {}],
                                           {"allow"}, {}, NoOptions))}
    /\ pc = "ready"
    /\ res = NoResult
    /\ calls = <<>>

NextKinds == Decide \/ AssertAllowed

SpecKinds == InitKinds /\ [][NextKinds]_vars

\* A method of the adapter called with any number of arguments, none too.
SafeLog ==
    /\ pc = "ready"
    /\ \E method \in LogLevel, args \in ArgLists(data) \cup {<<>>} :
           LET out == safeLoggerAdapter(method, heap, args)
           IN  /\ res' = [op |-> "safeLog", method |-> method, args |-> args,
                          r |-> out.r]
               /\ calls' = calls \o out.calls
    /\ pc' = "done"
    /\ UNCHANGED <<heap, data, options, policy>>

NextAdapter == SafeLog

SpecAdapter == InitCalls /\ [][NextAdapter]_vars

\* The same data with other raw strings in its classified values: the raw
\* string of the value at entry i of object c becomes g[c][i].
OtherRaws == {"s3cr3t", "hunter2"}

ReRaw(v, raw) == IF v.t = "cls" THEN Cls(v.k, raw) ELSE v

RawVariants(h, d) ==
    {[heap |-> [c \in DOMAIN h |->
                   Node(h[c].t, [i \in DOMAIN h[c].ents |->
                                    Entry(h[c].ents[i].key,
                                          ReRaw(h[c].ents[i].val, g[c][i]))])],
      data |-> ReRaw(d, g[1][1])] :
        g \in [DOMAIN h -> [1..MaxEntries -> OtherRaws]]}

\* redact on the data of the first call with other raw strings.
RedactVariant ==
    /\ pc = "done"
    /\ res.op = "redact"
    /\ \E in \in RawVariants(heap, data) :
           res' = [op |-> "redactVariant", first |-> res.r, in |-> in,
                   r |-> redact(in.heap, in.data, options)]
    /\ pc' = "pair"
    /\ UNCHANGED <<heap, data, options, policy, calls>>

NextRaw == Redact \/ RedactVariant

SpecRaw == InitRedact /\ [][NextRaw]_vars

\* decide and assertAllowed on the data of the first call with other raw
\* strings, for the same policy and action.
DecideVariant ==
    /\ pc = "done"
    /\ res.op = "decide"
    /\ \E in \in RawVariants(heap, data) :
           res' = [op |-> "decideVariant", action |-> res.action,
                   first |-> res.r, in |-> in,
                   r |-> decide(policy, res.action, in.heap, in.data)]
    /\ pc' = "pair"
    /\ UNCHANGED <<heap, data, options, policy, calls>>

AssertAllowedVariant ==
    /\ pc = "done"
    /\ res.op = "assertAllowed"
    /\ \E in \in RawVariants(heap, data) :
           res' = [op |-> "assertAllowedVariant", action |-> res.action,
                   first |-> res.r, in |-> in,
                   r |-> assertAllowed(policy, res.action, in.heap, in.data)]
    /\ pc' = "pair"
    /\ UNCHANGED <<heap, data, options, policy, calls>>

NextRawPolicy ==
    Decide \/ AssertAllowed \/ DecideVariant \/ AssertAllowedVariant

SpecRawPolicy == InitPolicy /\ [][NextRawPolicy]_vars

\* redact and decide on the same object graphs.
NextTraverse == Redact \/ Decide

SpecTraverse == InitRedact /\ [][NextTraverse]_vars

-----------------------------------------------------------------------------
(* What the claims speak of *)

\* The values an object graph holds at its root or in an entry.
ValuesOf(h, root) ==
    {root} \cup UNION {{h[c].ents[i].val : i \in DOMAIN h[c].ents} :
                          c \in DOMAIN h}

RECURSIVE ReachWithin(_, _, _)
\* The values on the paths of depth <= d from the values S (themselves depth 0).
ReachWithin(h, S, d) ==
    LET T == S \cup UNION {{h[v.id].ents[i].val : i \in DOMAIN h[v.id].ents} :
                              v \in {w \in S : w.t = "in"}}
    IN  IF d = 0 \/ T = S THEN S ELSE ReachWithin(h, T, d - 1)

\* The classified values of the data, on some path within the depth limit.
ClassifiedIn(h, d) ==
    {v \in ReachWithin(h, {d}, DetectMaxDepth) : v.t = "cls"}

\* A position is a path from the root; [x, y, key, d] says that some position
\* of depth d holds x in the input and y in redact's output, under the
\* property name key (<<>> for the root and for the elements of arrays).  Depths past
\* maxDepth + 1 are counted as maxDepth + 1.
PositionsBelow(h, oh, o, p) ==
    {[x |-> h[p.x.id].ents[i].val,
      y |-> oh[p.y.id].ents[i].val,
      key |-> h[p.x.id].ents[i].key,
      d |-> IF p.d > optMaxDepth(o) THEN p.d ELSE p.d + 1] :
        i \in DOMAIN h[p.x.id].ents}

PositionsLog == 6

RECURSIVE PositionsClosure(_, _, _, _, _)
PositionsClosure(k, h, oh, o, S) ==
    IF k = 0
    THEN S \cup UNION {PositionsBelow(h, oh, o, p) :
                          p \in {q \in S : q.x.t = "in" /\ q.y.t = "out"}}
    ELSE LET T == PositionsClosure(k - 1, h, oh, o, S)
         IN  IF T = S THEN S ELSE PositionsClosure(k - 1, h, oh, o, T)

Positions(h, d, o, r) ==
    PositionsClosure(PositionsLog, h, r.oh, o, {[x |-> d, y |-> r.val, key |-> <<>>, d |-> 0]})

Placeholders(o) ==
    {Str(optPlaceholder(o, k)) : k \in DataClassification \cup {"unknown"}}

\* A call of function op has returned or thrown.
Called(op) == pc = "done" /\ res.op = op

-----------------------------------------------------------------------------
(* Claims on redaction *)

\* The raw strings of the classified values of the input.
RawStrings == {v.v : v \in {w \in ValuesOf(heap, data) : w.t = "cls"}}

\* C1: redact returns, and every position of the input that holds a
\* classified value holds a placeholder string in redact's output; the
\* output holds no classified object and no raw string anywhere, and the
\* text safeJsonStringify returns has no string token that is a raw string.
NoLeakThroughRedact ==
    /\ Called("redact") =>
           /\ res.r.returned
           /\ \A p \in Positions(heap, data, options, res.r) :
                  p.x.t = "cls" =>
                      /\ p.y \in Placeholders(options)
                      /\ p.y.v # p.x.v
           /\ \A v \in ValuesOf(res.r.oh, res.r.val) :
                  v.t # "cls" /\ (v.t = "str" => v.v \notin RawStrings)
    /\ Called("safeJsonStringify") /\ res.r.t = "return" =>
           \A i \in DOMAIN res.r.value :
               res.r.value[i].t = "string" => res.r.value[i].s \notin RawStrings

\* C1's case: a classified value two levels down a graph that has a cycle,
\* replaced by its placeholder.
NoLeakThroughRedactWitness ==
    /\ Called("redact")
    /\ \E i \in DOMAIN heap[1].ents : heap[1].ents[i].val = InRef(1)
    /\ \E p \in Positions(heap, data, options, res.r) :
           /\ p.x.t = "cls"
           /\ p.d = 2
           /\ p.y = Str("[REDACTED:secret]")

\* C2: every classified value at a position of depth <= maxDepth is replaced
\* in redact's output by the placeholder of its own kind.
ExactKindWithinDepth ==
    Called("redact") =>
        \A p \in Positions(heap, data, options, res.r) :
            p.x.t = "cls" /\ p.d <= optMaxDepth(options) =>
                p.y = Str(optPlaceholder(options, p.x.k))

\* C3: the detectedKinds of decide's decision holds the kind of every
\* classified value on a path of depth <= 25 from the root.
DetectionComplete ==
    Called("decide") /\ res.r.t = "return" =>
        \A v \in ClassifiedIn(heap, data) :
            \E i \in DOMAIN res.r.value.detectedKinds :
                res.r.value.detectedKinds[i] = v.k

-----------------------------------------------------------------------------
(* Claims on policies *)

\* Whether the policy's allow table has the action and its set has the kind.
Allows(p, action, kind) == action \in DOMAIN p.allow /\ kind \in p.allow[action]

\* C4: decide returns a decision, allowed exactly when every kind of its
\* detectedKinds is a member of policy.allow[action]; the decision has a
\* reason if and only if it is not allowed.
DecideByAllowSet ==
    Called("decide") =>
        /\ res.r.t = "return"
        /\ res.r.value.allowed <=>
               \A i \in DOMAIN res.r.value.detectedKinds :
                   Allows(policy, res.action, res.r.value.detectedKinds[i])
        /\ "reason" \in DOMAIN res.r.value <=> ~res.r.value.allowed

\* C5: for an action with no entry in policy.allow and data holding a
\* classified value, decide returns a decision with allowed = false.
FailClosedOnMissingAction ==
    /\ Called("decide")
    /\ res.action \notin DOMAIN policy.allow
    /\ ClassifiedIn(heap, data) # {}
    => /\ res.r.t = "return"
       /\ ~res.r.value.allowed

\* C6: assertAllowed fails if and only if decide's decision is not allowed,
\* with the decision's reason as the error's message; on an allowed decision
\* it returns undefined and has no effect.
AssertAllowedFollowsDecide ==
    Called("assertAllowed") =>
        LET d == decide(policy, res.action, heap, data)
        IN  /\ d.t = "return"
            /\ res.r.t = "throw" <=> ~d.value.allowed
            /\ res.r.t = "throw" => res.r.message = d.value.reason
            /\ d.value.allowed => res.r = Return(Undefined) /\ calls = <<>>

\* C7: when an argument of policyLog holds a classified value whose kind
\* policy.allow.log does not permit, policyLog fails with the policy
\* violation Error and the logger is not called.
PolicyLogShortCircuit ==
    /\ Called("policyLog")
    /\ \E i \in DOMAIN res.args :
           \E v \in ClassifiedIn(heap, res.args[i]) : ~Allows(policy, "log", v.k)
    => /\ res.r.t = "throw"
       /\ res.r.type = "Error"
       /\ calls = <<>>

\* What policyLog hands to the logger for an argument.
LoggedAs(p, h, arg) ==
    IF "redactBefore" \in p.has /\ "log" \in p.redactBefore
    THEN redact(h, arg, IF "redaction" \in p.has THEN p.redaction ELSE NoOptions)
    ELSE [val |-> arg, oh |-> <<>>, returned |-> TRUE]

\* C8: when assertAllowed passes for action log on the argument list,
\* whatever the level, policyLog returns after exactly one call of the
\* logger, to the method of the level, with as many arguments in the same
\* order: each redact(arg, policy.redaction) if log is in redactBefore, the
\* argument itself otherwise.
PolicyLogAllowedPath ==
    /\ Called("policyLog")
    /\ assertAllowed(policy, "log", WithArgs(heap, res.args),
                     InRef(Len(heap) + 1)).t = "return"
    => /\ res.r = Return(Undefined)
       /\ Len(calls) = 1
       /\ calls[1].method = res.level
       /\ DOMAIN calls[1].args = DOMAIN res.args
       /\ \A i \in DOMAIN res.args :
              calls[1].args[i] = LoggedAs(policy, heap, res.args[i])

\* C8's case: the default policy logs two public values at level error, each
\* replaced by its placeholder.
PolicyLogAllowedPathWitness ==
    /\ Called("policyLog")
    /\ policy = defaultPolicy
    /\ res.level = "error"
    /\ res.args = <<Cls("public", "hello"), Cls("public", "raw")>>
    /\ Len(calls) = 1
    /\ calls[1].method = "error"
    /\ calls[1].args[2].val = Str("[REDACTED:public]")

\* C9: audit returns an event with the policy's name, the action and
\* decide's decision; it throws nothing.
AuditNeverFails ==
    Called("audit") =>
        LET d == decide(policy, res.action, heap, data)
        IN  /\ res.r.t = "return"
            /\ res.r.value.policy = policy.name
            /\ res.r.value.action = res.action
            /\ d.t = "return"
            /\ res.r.value.decision = d.value

\* The objects of the graph do not reach themselves.
Acyclic(h) ==
    \A c \in DOMAIN h :
        InRef(c) \notin
            ReachWithin(h, {h[c].ents[i].val : i \in DOMAIN h[c].ents},
                        DetectMaxDepth)

-----------------------------------------------------------------------------
(* Claims on classification *)

\* The call of the classification function op has returned, on the value a
\* constructor made (made) or on the caller's own value.
Inspected(op, made) ==
    /\ pc = "done"
    /\ res.op = op
    /\ res.of.op = IF made THEN "construct" ELSE "none"

NonEmptyStrings == {v \in ClassifyInputs : v.t = "str" /\ v.v # ""}

\* C11: a constructor of kind k called on a non-empty string s returns a
\* value v with isClassified(v) true, classificationOf(v) = k and
\* reveal(v) = s.
ConstructorResult ==
    /\ res.op = "construct" /\ res.input \in NonEmptyStrings =>
           /\ res.r.t = "return"
           /\ pc = "made"
           /\ data = res.r.value
    /\ Inspected("isClassified", TRUE) => res.r = TRUE
    /\ Inspected("classificationOf", TRUE) => res.r = res.of.kind
    /\ Inspected("reveal", TRUE) => res.r = [t |-> "return", value |-> res.of.input]

\* C11's case: reveal gives back the string a token was made of.
ConstructorResultWitness ==
    /\ Inspected("reveal", TRUE)
    /\ res.of.kind = "token"
    /\ res.of.input = Str("shh")
    /\ res.r.value = Str("shh")

\* The value has the brand property with the value true.
Branded(v) == v.t \in {"cls", "obj"} /\ Prop(v, "brand") = Bool("true")

\* C12: on null, undefined, primitives, arrays, foreign objects and objects
\* built by hand without the brand, isClassified returns false and
\* classificationOf returns undefined.
FalseWithoutBrand ==
    /\ Inspected("isClassified", FALSE) /\ ~Branded(data) => res.r = FALSE
    /\ Inspected("classificationOf", FALSE) /\ ~Branded(data) =>
           res.r = Undefined

\* C12's case: an object literal with a valid kind and a value, no brand.
FalseWithoutBrandWitness ==
    /\ Inspected("isClassified", FALSE)
    /\ data = Obj(Absent, Str("secret"), Str("x"))
    /\ res.r = FALSE

\* C13: isClassified(v) is true if and only if v has the brand, v.kind is
\* one of the five kinds and v has a value property.
BrandCheckShape ==
    pc = "done" /\ res.op = "isClassified" =>
        (res.r <=> /\ Branded(data)
                   /\ Prop(data, "kind").t = "str"
                   /\ Prop(data, "kind").v \in DataClassification
                   /\ Prop(data, "value") # Absent)

\* C14: a constructor called on the empty string or on a value that is not
\* a string throws a ZodError and makes no classified value.
ConstructionFailure ==
    res.op = "construct" /\ res.input \notin NonEmptyStrings =>
        /\ res.r.t = "throw"
        /\ res.r.type = "ZodError"
        /\ pc = "done"
        /\ data = res.input

\* C14's cases: the empty string, and a number.
ConstructionFailureWitness ==
    /\ pc = "done"
    /\ res.op = "construct"
    /\ res.input \in {Str(""), Num("42")}
    /\ res.r.t = "throw"

-----------------------------------------------------------------------------
(* More claims on redaction *)

\* C15: a record entry at depth <= maxDepth whose value is a string, number,
\* boolean, bigint or null is replaced by placeholder('unknown') if
\* guessByKey is on and the key matches the suspicious-key pattern, and is
\* left as it is otherwise.
SuspiciousKeyRedaction ==
    Called("redact") =>
        \A p \in Positions(heap, data, options, res.r) :
            /\ p.key # <<>>
            /\ p.d <= optMaxDepth(options)
            /\ IsPrimitiveOrNull(p.x)
            => p.y = IF optGuessByKey(options) /\ DEFAULT_SUSPICIOUS_KEY(p.key)
                     THEN Str(optPlaceholder(options, "unknown"))
                     ELSE p.x

\* The object graph has a cycle through an array.
ArrayCycle(h) ==
    \E c \in DOMAIN h :
        /\ h[c].t = "arr"
        /\ InRef(c) \in ReachWithin(h, {h[c].ents[i].val : i \in DOMAIN h[c].ents},
                                    DetectMaxDepth)

\* C16: every call of redact and of decide returns, whatever cycles the
\* object graph has, and no call of walk is made at a depth above
\* maxDepth + 1.
TerminationOnCycles ==
    /\ Called("redact") =>
           /\ res.r.returned
           /\ redactRun(heap, data, options).deep <= optMaxDepth(options) + 1
    /\ Called("decide") =>
           /\ Done(detectRun(heap, data, DetectMaxDepth))
           /\ detectRun(heap, data, DetectMaxDepth).deep <= DetectMaxDepth + 1

\* C16's case: redact with the default maxDepth on an array that holds
\* itself, walked down to depth 26.
TerminationOnCyclesWitness ==
    /\ Called("redact")
    /\ ArrayCycle(heap)
    /\ "maxDepth" \notin options.given
    /\ res.r.returned
    /\ redactRun(heap, data, options).deep = DefaultMaxDepth + 1

\* The objects of the caller are as they were when the traversals of the
\* call return, and redact's output refers to none of them.
ArgumentsKept ==
    /\ Called("redact") =>
           /\ redactRun(heap, data, options).h = heap
           /\ \A v \in ValuesOf(res.r.oh, res.r.val) : v.t # "in"
    /\ pc = "done" /\ res.op \in {"decide", "assertAllowed", "audit"} =>
           detectRun(heap, data, DetectMaxDepth).h = heap
    /\ Called("policyLog") =>
           /\ detectRun(WithArgs(heap, res.args), InRef(Len(heap) + 1),
                        DetectMaxDepth).h = WithArgs(heap, res.args)
           /\ \A i \in DOMAIN res.args :
                  redactRun(heap, res.args[i],
                            IF "redaction" \in policy.has THEN policy.redaction
                            ELSE NoOptions).h = heap
           /\ \A j \in DOMAIN calls :
                  \A i \in DOMAIN calls[j].args :
                      calls[j].args[i].oh # <<>> =>
                          \A v \in ValuesOf(calls[j].args[i].oh,
                                            calls[j].args[i].val) : v.t # "in"

\* C17: redact, decide, assertAllowed, audit and policyLog leave the data
\* and the policy as they were, and every record and array of redact's
\* output is a new object, none of the input's.
NoMutation ==
    /\ []ArgumentsKept
    /\ [][heap' = heap /\ data' = data /\ policy' = policy]_vars

\* C17's case: redact of a record or array that holds another returns new
\* objects for both.
NoMutationWitness ==
    /\ Called("redact")
    /\ data = InRef(1)
    /\ \E i \in DOMAIN heap[1].ents : heap[1].ents[i].val = InRef(2)
    /\ res.r.val = OutRef(1)
    /\ Len(res.r.oh) >= 2

\* No entry of the input under a suspicious key holds a classified value.
NoClassifiedUnderSuspiciousKey(h) ==
    \A c \in DOMAIN h :
        \A i \in DOMAIN h[c].ents :
            DEFAULT_SUSPICIOUS_KEY(h[c].ents[i].key) => h[c].ents[i].val.t # "cls"

\* C18: when no entry under a suspicious key holds a classified value,
\* redact(redact(x)) under the same options is equal to redact(x): the same
\* value, and objects with the same entries referring to each other in the
\* same way.
RedactTwice ==
    /\ pc = "again"
    /\ NoClassifiedUnderSuspiciousKey(heap)
    => /\ res.r.returned
       /\ res.r.val = res.first.val
       /\ res.r.oh = res.first.oh

\* C18's case: a record with a classified value under a harmless key and a
\* string under a suspicious one, redacted twice with key guessing on.
RedactTwiceWitness ==
    /\ pc = "again"
    /\ NoClassifiedUnderSuspiciousKey(heap)
    /\ optGuessByKey(options)
    /\ \E i, j \in DOMAIN heap[1].ents :
           /\ heap[1].ents[i] = Entry(KeyNormal, Cls("secret", "s3cr3t"))
           /\ heap[1].ents[j] = Entry(KeyPassword, Str("ok"))
    /\ res.r.val = OutRef(1)

ProcessedNormally(h, oh, o, x, y, key) ==
    IF x.t = "cls" THEN y = Str(optPlaceholder(o, x.k))
    ELSE IF x.t = "in"
    THEN /\ y.t = "out"
         /\ oh[y.id].t = h[x.id].t
         /\ Len(oh[y.id].ents) = Len(h[x.id].ents)
         /\ \A i \in DOMAIN h[x.id].ents :
                oh[y.id].ents[i].key = h[x.id].ents[i].key
    ELSE y = IF key # <<>> /\ optGuessByKey(o) /\ DEFAULT_SUSPICIOUS_KEY(key)
             THEN Str(optPlaceholder(o, "unknown"))
             ELSE x

\* The positions of depth maxDepth + 1: the entries of the containers at
\* depth maxDepth.
PositionsAtLimit(h, o, r) ==
    UNION {PositionsBelow(h, r.oh, o, p) :
              p \in {q \in Positions(h, InRef(1), o, r) :
                        q.d = optMaxDepth(o) /\ q.x.t = "in" /\ q.y.t = "out"}}

\* C20: in redact's output every position of depth 0..maxDepth holds what
\* normal processing gives for the input there, every position of depth
\* maxDepth + 1 holds placeholder('unknown'), walk is not called deeper
\* than maxDepth + 1, and maxDepth is 25 when not given.
DepthLimit ==
    Called("redact") /\ data = InRef(1) =>
        /\ \A p \in Positions(heap, data, options, res.r) :
               p.d <= optMaxDepth(options) =>
                   ProcessedNormally(heap, res.r.oh, options, p.x, p.y, p.key)
        /\ \A p \in PositionsAtLimit(heap, options, res.r) :
               p.y = Str(optPlaceholder(options, "unknown"))
        /\ redactRun(heap, data, options).deep <= optMaxDepth(options) + 1
        /\ "maxDepth" \notin options.given => optMaxDepth(options) = 25

\* The property name is one the suspicious-key pattern matches.
Suspicious(key) == key # <<>> /\ DEFAULT_SUSPICIOUS_KEY(key)

\* C21: a classified value under a suspicious key at depth <= maxDepth is
\* replaced in redact's output by the placeholder of its own kind, with
\* guessByKey on or off.
ClassificationBeforeKey ==
    Called("redact") =>
        \A p \in Positions(heap, data, options, res.r) :
            /\ p.x.t = "cls"
            /\ Suspicious(p.key)
            /\ p.d <= optMaxDepth(options)
            => p.y = Str(optPlaceholder(options, p.x.k))

\* C22: a record or array under a suspicious key at depth <= maxDepth is
\* replaced by an output object of the same type and entries, and each of
\* its entries within maxDepth is processed normally: a record's entries by
\* their own keys, an array's elements with no key hint (an unclassified
\* primitive element is unchanged), classified values by their kind.
KeyHintOneLevel ==
    Called("redact") =>
        \A p \in Positions(heap, data, options, res.r) :
            /\ p.x.t = "in"
            /\ Suspicious(p.key)
            /\ p.d <= optMaxDepth(options)
            => /\ ProcessedNormally(heap, res.r.oh, options, p.x, p.y, p.key)
               /\ \A q \in PositionsBelow(heap, res.r.oh, options, p) :
                      q.d <= optMaxDepth(options) =>
                          ProcessedNormally(heap, res.r.oh, options,
                                            q.x, q.y, q.key)

\* C23: in redact's output two positions of depth <= maxDepth that hold the
\* same record or array in the input hold the same output object (so a
\* record that refers to itself gives an output record that refers to
\* itself), and no container is traversed twice: the call allocates at most
\* one output object for each object of the input.
ReferenceReuse ==
    Called("redact") =>
        /\ \A p, q \in Positions(heap, data, options, res.r) :
               /\ p.x.t = "in"
               /\ p.x = q.x
               /\ p.d <= optMaxDepth(options)
               /\ q.d <= optMaxDepth(options)
               => p.y.t = "out" /\ p.y = q.y
        /\ Len(res.r.oh) <= Len(heap)

\* The kinds of the classified values that redact replaced by the
\* placeholder of their kind.
KindsReplaced(h, d, o, r) ==
    {p.x.k : p \in {q \in Positions(h, d, o, r) :
                       /\ q.x.t = "cls"
                       /\ q.y = Str(optPlaceholder(o, q.x.k))}}

\* C24: under the default redaction options the kinds decide collects are
\* the kinds of the classified values that redact replaces by the
\* placeholder of their kind, on the same data.
TraversalsAgree ==
    /\ pc = "both"
    /\ options.given = {}
    => /\ res.r.t = "return"
       /\ {res.r.value.detectedKinds[i] : i \in DOMAIN res.r.value.detectedKinds}
              = KindsReplaced(heap, data, options, res.redacted)

\* C26: in redact's output a position of depth <= maxDepth whose input value
\* is not classified, not an array, not a plain record and not a primitive
\* under a suspicious key with key guessing on (an ordinary primitive,
\* undefined, a function, an instance of a foreign class) holds the
\* identical value; the instance keeps its entries.
PassThrough ==
    pc \in {"done", "both"} /\ res.op \in {"redact", "redactDecide"} =>
        LET r == IF res.op = "redact" THEN res.r ELSE res.redacted
        IN  \A p \in Positions(heap, data, options, r) :
                /\ p.d <= optMaxDepth(options)
                /\ classificationOf(p.x) = Undefined
                /\ ~IsArray(heap, p.x)
                /\ ~isPlainObject(heap, p.x)
                /\ ~(optGuessByKey(options) /\ Suspicious(p.key)
                        /\ IsPrimitiveOrNull(p.x))
                => /\ p.y = p.x
                   /\ redactRun(heap, data, options).h = heap

\* A classified value of kind k is on a path of depth <= d from v.
HoldsKind(h, v, d, k) ==
    \E w \in ReachWithin(h, {v}, d) : w.t = "cls" /\ w.k = k

RECURSIVE DiscoveredBefore(_, _, _, _, _)
\* In a depth-first walk from v that goes d levels down, array elements by
\* index and record entries in the order of their keys, a value of kind k1
\* is met before any value of kind k2 (both being there).
DiscoveredBefore(h, v, d, k1, k2) ==
    IF v.t # "in" \/ d = 0 THEN v.k = k1
    ELSE LET ents == h[v.id].ents
             Has(i, k) == HoldsKind(h, ents[i].val, d - 1, k)
             first == CHOOSE i \in DOMAIN ents :
                          /\ Has(i, k1) \/ Has(i, k2)
                          /\ \A j \in 1..(i - 1) : ~Has(j, k1) /\ ~Has(j, k2)
         IN  IF ~Has(first, k2) THEN TRUE
             ELSE IF ~Has(first, k1) THEN FALSE
             ELSE DiscoveredBefore(h, ents[first].val, d - 1, k1, k2)

\* C25: decide's detectedKinds has no kind twice, has only kinds of
\* classified values of the data, and lists them in the order of their first
\* discovery in a depth-first walk of the data; the reason of a denial names
\* the disallowed kinds in that same order.
DetectedKindsShape ==
    Called("decide") /\ res.r.t = "return" =>
        LET ks == res.r.value.detectedKinds
            NotAllowed(k) == ~Allows(policy, res.action, k)
        IN  /\ \A i, j \in DOMAIN ks : ks[i] = ks[j] => i = j
            /\ \A i \in DOMAIN ks : HoldsKind(heap, data, DetectMaxDepth, ks[i])
            /\ \A i, j \in DOMAIN ks :
                   i < j => DiscoveredBefore(heap, data, DetectMaxDepth,
                                             ks[i], ks[j])
            /\ ~res.r.value.allowed =>
                   res.r.value.reason
                       = "Policy '" \o policy.name \o "' disallows kinds ["
                             \o Join(Filter(ks, NotAllowed), ", ")
                             \o "] for action '" \o res.action \o "'."

\* C27: a method of the adapter called with n arguments returns after
\* exactly one call of the logger, to the method of the same name, with n
\* arguments in the same order, each redact(arg) under the default options;
\* it returns whatever the policy says of the arguments.
SafeLoggerAdapterCalls ==
    Called("safeLog") =>
        /\ res.r = Return(Undefined)
        /\ Len(calls) = 1
        /\ calls[1].method = res.method
        /\ DOMAIN calls[1].args = DOMAIN res.args
        /\ \A i \in DOMAIN res.args :
               calls[1].args[i] = redact(heap, res.args[i], NoOptions)

\* C27's case: warn called with two arguments that the default policy does
\* not allow in a log, the second a record whose secret is replaced.
SafeLoggerAdapterCallsWitness ==
    /\ Called("safeLog")
    /\ res.method = "warn"
    /\ Len(res.args) = 2
    /\ res.args[2] = InRef(1)
    /\ assertAllowed(defaultPolicy, "log", WithArgs(heap, res.args),
                     InRef(Len(heap) + 1)).t = "throw"
    /\ Len(calls) = 1
    /\ calls[1].method = "warn"
    /\ calls[1].args[1].val = Str("[REDACTED:public]")
    /\ calls[1].args[2].val.t = "out"
    /\ \E i \in DOMAIN calls[1].args[2].oh[1].ents :
           calls[1].args[2].oh[1].ents[i].val = Str("[REDACTED:secret]")

\* The classified values in an argument [val, oh] handed to the logger: in
\* the objects redact allocated and in the caller's objects it refers to.
ClassifiedInLogged(h, a) ==
    UNION {ClassifiedIn(h, w) : w \in ValuesOf(a.oh, a.val)}

\* C28: whatever the policy, the level and the arguments, no argument that
\* policyLog hands to the logger holds a classified value of a kind that
\* policy.allow.log does not have.
LogSafety ==
    Called("policyLog") =>
        \A n \in DOMAIN calls : \A i \in DOMAIN calls[n].args :
            \A v \in ClassifiedInLogged(heap, calls[n].args[i]) :
                Allows(policy, "log", v.k)

\* C29: redact on two inputs that differ only in the raw strings of their
\* classified values returns, under the same options, equal outputs: the
\* same value and output objects with the same entries.
RedactNoninterference ==
    pc = "pair" /\ res.op = "redactVariant" => res.r = res.first

\* C29's case: a secret inside a record or array has another raw string in
\* the second input, and both outputs hold its placeholder.
RedactNoninterferenceWitness ==
    /\ pc = "pair"
    /\ res.op = "redactVariant"
    /\ res.in.heap # heap
    /\ res.r = res.first
    /\ \E p \in Positions(heap, data, options, res.first) :
           p.d >= 1 /\ p.x.t = "cls" /\ p.y = Str("[REDACTED:secret]")
    /\ \E p \in Positions(res.in.heap, res.in.data, options, res.r) :
           p.d >= 1 /\ p.x = Cls("secret", "hunter2")
               /\ p.y = Str("[REDACTED:secret]")

\* The text of a denial, from the policy's name, the kinds and the action.
DenialText(p, action, kinds) ==
    "Policy '" \o p.name \o "' disallows kinds [" \o Join(kinds, ", ")
        \o "] for action '" \o action \o "'."

\* C30: on two data that differ only in the raw strings of their classified
\* values, decide ends with equal decisions and assertAllowed ends the same
\* way, with the same message when it fails; the reason and the message are
\* the text made of the policy's name, the disallowed kinds and the action.
DecisionNoninterference ==
    pc = "pair" /\ res.op \in {"decideVariant", "assertAllowedVariant"} =>
        LET NotAllowed(k) == ~Allows(policy, res.action, k)
            ks == detectedKindsDeep(res.in.heap, res.in.data, DetectMaxDepth)
            text == DenialText(policy, res.action, Filter(ks, NotAllowed))
        IN  /\ res.r = res.first
            /\ res.op = "decideVariant" /\ res.r.t = "return"
                   /\ ~res.r.value.allowed
               => res.r.value.reason = text
            /\ res.op = "assertAllowedVariant" /\ res.r.t = "throw"
                   /\ res.r.type = "Error"
               => res.r.message = text

\* C30's case: assertAllowed fails with the same message on a record holding
\* a secret and on the record with another raw string in it.
DecisionNoninterferenceWitness ==
    /\ pc = "pair"
    /\ res.op = "assertAllowedVariant"
    /\ res.in.heap # heap
    /\ res.action = "log"
    /\ policy = defaultPolicy
    /\ res.r = res.first
    /\ res.r.t = "throw"
    /\ res.r.message = "Policy 'typesecure.default' disallows kinds [secret] for action 'log'."

====
